---------------------------- MODULE Spec2Model ----------------------------
(***************************************************************************)
(* PhishGuard: the /scan handler of backend/app.py (feature extraction,    *)
(* the weighted safety score, the threshold verdict), and the classifier   *)
(* feature vectors of backend/feature_extractor.py and                     *)
(* backend/train_models.py.                                                *)
(*                                                                         *)
(* A URL is a sequence of one-character strings.  Scores are exact         *)
(* rationals [num, den]; Python's round() is round-half-to-even.  The      *)
(* source evaluates in binary floating point: away from exact halves the   *)
(* rounded results coincide with the exact ones, at an exact half the      *)
(* float may fall on either side of it.                                    *)
(***************************************************************************)
EXTENDS Integers, Sequences, FiniteSets, TLC

VARIABLES
    pc,             \* "idle" | "probing" | "done" | "escaped"
    url,            \* the stripped url of the request being served
    feat,           \* the feature map of the request, NoFeat before extraction
    response,       \* [code, body] returned by scan_url, NoResponse before
    fault,          \* the exception raised while serving the request, "none"
    calls,          \* per request: was extract_features entered, how the probe went
    memo,           \* one earlier successful scan, kept for comparison
    vec,            \* last vector returned by feature_extractor.extract_features
    scaler          \* the StandardScaler fitted by train_models

vars == <<pc, url, feat, response, fault, calls, memo, vec, scaler>>

-----------------------------------------------------------------------------
(* Bounds of the model *)

MaxUrlLen == 3          \* generated request urls have at most this many characters
MaxRedirects == 5       \* a successful probe reports 0..MaxRedirects redirects
MaxUrlLength == 230     \* url_length of the feature maps of SpecScore
MaxSpecialChars == 34   \* special_chars_count of the feature maps of SpecScore
MaxTriggerCount == 6    \* trigger_count of the feature maps of SpecScore
MaxDatasetRows == 3     \* rows of the training dataset

-----------------------------------------------------------------------------
(* Characters and Python's str operations *)

LowerSeq == <<"a", "b", "c", "d", "e", "f", "g", "h", "i", "j", "k", "l", "m",
              "n", "o", "p", "q", "r", "s", "t", "u", "v", "w", "x", "y", "z">>
UpperSeq == <<"A", "B", "C", "D", "E", "F", "G", "H", "I", "J", "K", "L", "M",
              "N", "O", "P", "Q", "R", "S", "T", "U", "V", "W", "X", "Y", "Z">>
DigitSeq == <<"0", "1", "2", "3", "4", "5", "6", "7", "8", "9">>

Range(s) == {s[i] : i \in 1..Len(s)}

LowerChars == Range(LowerSeq)
UpperChars == Range(UpperSeq)
DigitChars == Range(DigitSeq)

islower(c) == c \in LowerChars
isupper(c) == c \in UpperChars
isalpha(c) == islower(c) \/ isupper(c)
isdigit(c) == c \in DigitChars
isspace(c) == c \in {" ", "\t", "\n", "\r"}

tolower(c) ==
    IF isupper(c) THEN LowerSeq[CHOOSE i \in 1..26 : UpperSeq[i] = c] ELSE c

\* str.lower()
lower(s) == [i \in 1..Len(s) |-> tolower(s[i])]

\* str.strip()
strip(s) ==
    LET n == Len(s)
    IN  IF \A i \in 1..n : isspace(s[i]) THEN <<>>
        ELSE LET first == CHOOSE i \in 1..n :
                              ~isspace(s[i]) /\ \A j \in 1..(i - 1) : isspace(s[j])
                 back == CHOOSE k \in 0..(n - 1) :
                              ~isspace(s[n - k]) /\ \A j \in (n - k + 1)..n : isspace(s[j])
             IN  SubSeq(s, first, n - back)

\* w in s
Contains(s, w) ==
    \E i \in 0..(Len(s) - Len(w)) : SubSeq(s, i + 1, i + Len(w)) = w

\* s.startswith(w)
startswith(s, w) == Len(s) >= Len(w) /\ SubSeq(s, 1, Len(w)) = w

\* s.count(c) for a one-character c, and the number of characters in a class
count(s, c) == Cardinality({i \in 1..Len(s) : s[i] = c})

\* s.find of the first character in a set: its index, 0 when there is none
FindAny(s, cs) ==
    LET hits == {i \in 1..Len(s) : s[i] \in cs}
    IN  IF hits = {} THEN 0 ELSE CHOOSE i \in hits : \A j \in hits : i <= j

\* index of the last character in a set, 0 when there is none
RFindAny(s, cs) ==
    LET hits == {i \in 1..Len(s) : s[i] \in cs}
    IN  IF hits = {} THEN 0 ELSE CHOOSE i \in hits : \A j \in hits : j <= i

\* s[i:] with the 0-based start i
Tail0(s, i) == SubSeq(s, i + 1, Len(s))

-----------------------------------------------------------------------------
(* urllib.parse.urlparse, as extract_features uses it *)

SchemeChars == LowerChars \cup UpperChars \cup DigitChars \cup {"+", "-", "."}

\* the scheme split: <<scheme, rest>>
SplitScheme(u) ==
    LET i == FindAny(u, {":"})
    IN  IF i > 1 /\ isalpha(u[1]) /\ \A j \in 1..(i - 1) : u[j] \in SchemeChars
        THEN <<lower(SubSeq(u, 1, i - 1)), Tail0(u, i)>>
        ELSE <<(<<>>), u>>

\* the netloc split of a rest that starts with "//": <<netloc, rest>>
SplitNetloc(r) ==
    IF startswith(r, <<"/", "/">>)
    THEN LET after == Tail0(r, 2)
             d == FindAny(after, {"/", "?", "#"})
         IN  IF d = 0 THEN <<after, (<<>>)>>
             ELSE <<SubSeq(after, 1, d - 1), Tail0(after, d - 1)>>
    ELSE <<(<<>>), r>>

\* everything before the first character of cs
Before(s, cs) ==
    LET i == FindAny(s, cs) IN IF i = 0 THEN s ELSE SubSeq(s, 1, i - 1)

\* ParseResult.hostname: the netloc after the last "@", before the first ":",
\* lowercased (the bracketed form needs a "]", which urlparse insists on)
hostname_of(netloc) ==
    lower(Before(Tail0(netloc, RFindAny(netloc, {"@"})), {":"}))

\* urlparse(url): raises ValueError("Invalid IPv6 URL") when exactly one of
\* "[" and "]" occurs in the netloc
urlparse(u) ==
    LET ss == SplitScheme(u)
        nl == SplitNetloc(ss[2])
        netloc == nl[1]
    IN  IF ("[" \in Range(netloc)) # ("]" \in Range(netloc))
        THEN [ok |-> FALSE, exc |-> [type |-> "ValueError", message |-> "Invalid IPv6 URL"]]
        ELSE [ok |-> TRUE, scheme |-> ss[1], netloc |-> netloc,
              path |-> Before(Before(nl[2], {"#"}), {"?"}),
              hostname |-> hostname_of(netloc)]

-----------------------------------------------------------------------------
(* app.py: feature settings *)

TRIGGER_WORDS == << <<"w", "i", "n">>,
                    <<"p", "r", "i", "z", "e">>,
                    <<"g", "i", "f", "t">>,
                    <<"f", "r", "e", "e">>,
                    <<"c", "l", "a", "i", "m">>,
                    <<"b", "o", "n", "u", "s">>,
                    <<"o", "f", "f", "e", "r">> >>

SAFE_THRESHOLD == 70

\* the character class of the regular expression on line 27
SpecialChars == {"!", "@", "#", "$", "%", "^", "&", "*", "(", ")", "_", "+", "=",
                 "[", "]", "{", "}", ";", ":", "<", ">", ",", "?", "/", "\\", "|"}

-----------------------------------------------------------------------------
(* Exact arithmetic *)

Rat(n, d) == [num |-> n, den |-> d]
RatAdd(a, b) == Rat(a.num * b.den + b.num * a.den, a.den * b.den)
RatScale(k, a) == Rat(k * a.num, a.den)
RatLeq(a, b) == a.num * b.den <= b.num * a.den
RatZero == Rat(0, 1)
RatOne == Rat(1, 1)

\* max(0.0, x)
max0(a) == IF a.num < 0 THEN RatZero ELSE a

\* round(n / d) for d > 0: to the nearest integer, an exact half to the even one
py_round(n, d) ==
    LET q == n \div d
        r == n % d
    IN  IF 2 * r > d THEN q + 1
        ELSE IF 2 * r < d THEN q
        ELSE IF q % 2 = 0 THEN q ELSE q + 1

\* round(count / length, 4) in ten-thousandths; 0.0 for the empty url
special_char_ratio_of(special_chars_count, url_length) ==
    IF url_length > 0 THEN py_round(10000 * special_chars_count, url_length) ELSE 0

-----------------------------------------------------------------------------
(* app.py: extract_features *)

special_chars_count_of(u) == Cardinality({i \in 1..Len(u) : u[i] \in SpecialChars})

trigger_count_of(u) ==
    Cardinality({i \in 1..Len(TRIGGER_WORDS) : Contains(lower(u), TRIGGER_WORDS[i])})

token_mismatch_of(u) ==
    IF (\E i \in 1..Len(u) : islower(u[i])) /\ (\E i \in 1..Len(u) : isupper(u[i]))
    THEN 1 ELSE 0

\* the end of the run of digits of s that starts at index i (i itself when none)
DigitRunEnd(s, i) ==
    LET stops == {j \in i..Len(s) : ~isdigit(s[j])}
    IN  IF stops = {} THEN Len(s) + 1 ELSE CHOOSE j \in stops : \A k \in stops : j <= k

\* re.match(r"\d+\.\d+\.\d+\.\d+", hostname) is not None
has_ip_of(hostname) ==
    LET e1 == DigitRunEnd(hostname, 1)
        e2 == DigitRunEnd(hostname, e1 + 1)
        e3 == DigitRunEnd(hostname, e2 + 1)
        e4 == DigitRunEnd(hostname, e3 + 1)
        dot(e) == e <= Len(hostname) /\ hostname[e] = "."
    IN  IF /\ e1 > 1 /\ dot(e1)
           /\ e2 > e1 + 1 /\ dot(e2)
           /\ e3 > e2 + 1 /\ dot(e3)
           /\ e4 > e3 + 1
        THEN 1 ELSE 0

\* the feature map built on lines 43-56 from the parts already computed
FeatureMap(u, parsed, special_chars_count, trigger_count, token_mismatch, redirect_count) ==
    [url |-> u,
     url_length |-> Len(u),
     special_chars_count |-> special_chars_count,
     special_char_ratio |-> special_char_ratio_of(special_chars_count, Len(u)),
     trigger_count |-> trigger_count,
     token_mismatch |-> token_mismatch,
     redirect_count |-> redirect_count,
     has_https |-> IF parsed.scheme = <<"h", "t", "t", "p", "s">> THEN 1 ELSE 0,
     has_at |-> IF "@" \in Range(u) THEN 1 ELSE 0,
     has_ip |-> has_ip_of(parsed.hostname),
     hostname |-> parsed.hostname,
     path |-> parsed.path]

\* extract_features(url) once urlparse has returned and the probe has
\* yielded redirect_count
extract_features(u, redirect_count) ==
    FeatureMap(u, urlparse(u), special_chars_count_of(u), trigger_count_of(u),
               token_mismatch_of(u), redirect_count)

\* requests.get(url, timeout=3) can return a response only for an http or
\* https url that names a host; every other url raises before any I/O
CanProbe(u) ==
    LET p == urlparse(u)
    IN  /\ p.ok
        /\ p.scheme \in {<<"h", "t", "t", "p">>, <<"h", "t", "t", "p", "s">>}
        /\ p.hostname # <<>>

-----------------------------------------------------------------------------
(* app.py: compute_safety_score *)

token_score_of(token_mismatch) == IF token_mismatch = 1 THEN RatZero ELSE RatOne

\* the decay without its clamp at 0
trigger_score_unclamped(trigger_count) == Rat(5 - trigger_count, 5)

trigger_score_of(trigger_count) == max0(Rat(5 - trigger_count, 5))

redirect_score_of(redirect_count) == max0(Rat(4 - redirect_count, 4))

\* the decay without its clamp at 0
length_score_unclamped(url_length) ==
    IF url_length <= 50 THEN RatOne
    ELSE Rat(170 - (url_length - 50), 170)

length_score_of(url_length) ==
    IF url_length <= 50 THEN RatOne
    ELSE max0(Rat(170 - (url_length - 50), 170))

\* special_ratio / 0.15 with the ratio in ten-thousandths
special_score_of(special_ratio) == max0(Rat(1500 - special_ratio, 1500))

\* weights that no longer sum to 1.0
weights_oversum == [token |-> 40, trigger |-> 20, redirect |-> 15, length |-> 20, special |-> 15]

\* weights that sum to 1.0 with the token and trigger weights exchanged
weights_swapped == [token |-> 20, trigger |-> 30, redirect |-> 15, length |-> 20, special |-> 15]

\* the weights, in hundredths
weights == [token |-> 30, trigger |-> 20, redirect |-> 15, length |-> 20, special |-> 15]

sub_scores(f) ==
    [token |-> token_score_of(f.token_mismatch),
     trigger |-> trigger_score_of(f.trigger_count),
     redirect |-> redirect_score_of(f.redirect_count),
     length |-> length_score_of(f.url_length),
     special |-> special_score_of(f.special_char_ratio)]

\* weighted * 100
weighted100(f) ==
    LET s == sub_scores(f)
    IN  RatAdd(RatAdd(RatAdd(RatAdd(RatScale(weights.token, s.token),
                                    RatScale(weights.trigger, s.trigger)),
                             RatScale(weights.redirect, s.redirect)),
                      RatScale(weights.length, s.length)),
               RatScale(weights.special, s.special))

final_score_of(f) == LET w == weighted100(f) IN py_round(w.num, w.den)

pct(a) == py_round(100 * a.num, a.den)

per_feature_of(f) ==
    LET s == sub_scores(f)
    IN  [token_score_pct |-> pct(s.token),
         trigger_score_pct |-> pct(s.trigger),
         redirect_score_pct |-> pct(s.redirect),
         length_score_pct |-> pct(s.length),
         special_score_pct |-> pct(s.special)]

compute_safety_score(f) ==
    [final_score |-> final_score_of(f), per_feature |-> per_feature_of(f)]

-----------------------------------------------------------------------------
(* The request urls of the model *)

UrlAlphabet == {"a", "W", "/"}

RECURSIVE SeqsUpTo(_)
SeqsUpTo(n) ==
    IF n = 0 THEN {<<>>}
    ELSE LET shorter == SeqsUpTo(n - 1)
         IN  shorter \cup {Append(s, c) : s \in {t \in shorter : Len(t) = n - 1},
                                           c \in UrlAlphabet}

ShortUrls == SeqsUpTo(MaxUrlLen)

UrlExample == <<"h", "t", "t", "p", ":", "/", "/", "e", "x", "a", "m", "p", "l", "e",
                ".", "c", "o", "m">>
UrlIpHost == <<"h", "t", "t", "p", "s", ":", "/", "/", "1", ".", "2", ".", "3", ".",
               "4", "/", "a", "@", "b">>
UrlBadBracket == <<"h", "t", "t", "p", ":", "/", "/", "[">>
UrlTriggers == <<"w", "i", "n", "g", "i", "f", "t", "f", "r", "e", "e", "p", "r", "i",
                 "z", "e", "c", "l", "a", "i", "m", "b", "o", "n", "u", "s", "o", "f",
                 "f", "e", "r">>
UrlLure == <<"h", "t", "t", "p", ":", "/", "/", "S", "e", "c", "u", "r", "e", "-", "L",
             "o", "g", "i", "n", ".", "t", "k", "/", "?", "f", "r", "e", "e", "=", "1">>
UrlPadded == <<" ", "a", "W", " ">>
UrlBlank == <<" ", " ">>
UrlMailto == <<"m", "a", "i", "l", "t", "o", ":", "a", "@", "b">>
UrlLong == [i \in 1..300 |-> "a"]

SampleUrls ==
    {UrlExample, UrlIpHost, UrlBadBracket, UrlTriggers, UrlLure, UrlMailto, UrlLong}

\* what a client may put in the "url" field
RawUrls == ShortUrls \cup SampleUrls \cup {UrlPadded, UrlBlank}

\* the JSON bodies: a string url, no url at all, a url that is not a string
RequestBodies ==
    {[kind |-> "string", url |-> u] : u \in RawUrls}
        \cup {[kind |-> "missing", url |-> <<>>], [kind |-> "nonstring", url |-> <<>>]}

-----------------------------------------------------------------------------
(* app.py: scan_url *)

NoFeat == [url_length |-> -1]
NoResponse == [code |-> 0]
NoMemo == [trust |-> -1]
NoVec == <<>>
NoScaler == [n_features_in |-> 0, n_samples_seen |-> 0]
NoCalls == [extract |-> 0, probe |-> "none"]

\* the comparison with >= in place of >
is_safe_inclusive(score) == score >= SAFE_THRESHOLD

is_safe(score) == score > SAFE_THRESHOLD

prediction_text_of(score) == IF is_safe(score) THEN "Safe URL" ELSE "Phishing URL"

YesNo(flag) == IF flag # 0 THEN "Yes" ELSE "No"

\* the human-readable insights, one entry per line of the list, in its order
insights_of(f) ==
    << <<"URL Length", f.url_length>>,
       <<"Special Characters", f.special_chars_count, f.special_char_ratio>>,
       <<"Trigger Words Detected", f.trigger_count>>,
       <<"Token Mismatch (mixed-case trick)", YesNo(f.token_mismatch)>>,
       <<"Redirect Count (observed)", f.redirect_count>>,
       <<"Has HTTPS", YesNo(f.has_https)>>,
       <<"Has '@' symbol", YesNo(f.has_at)>>,
       <<"Hostname looks like IP", YesNo(f.has_ip)>> >>

\* the body of the success response for a feature map
success_body(f) ==
    LET s == compute_safety_score(f)
    IN  [status |-> "success",
         prediction |-> prediction_text_of(s.final_score),
         trust |-> s.final_score,
         features |-> insights_of(f),
         feature_scores |-> s.per_feature,
         threshold |-> SAFE_THRESHOLD]

no_url_response == [code |-> 400, body |-> [status |-> "error", message |-> "No URL provided"]]

\* a handler without the except clause: the fault leaves scan_url
except_Exception_missing(e) == [pc |-> "escaped", response |-> NoResponse]

\* except Exception as e: the fault becomes a 500 error response with str(e)
except_Exception(e) ==
    [pc |-> "done",
     response |-> [code |-> 500, body |-> [status |-> "error", message |-> e.message]]]

\* scan_url up to the redirect probe: the body is read, the url stripped,
\* an empty url answered with 400, the url parsed inside the try block
scan_url(body) ==
    /\ pc # "probing"
    /\ feat' = NoFeat
    /\ UNCHANGED <<memo, vec, scaler>>
    /\ IF body.kind = "nonstring"
       THEN \* .strip() of a non-string raises before the try block
            /\ pc' = "escaped"
            /\ fault' = "AttributeError"
            /\ url' = <<>>
            /\ response' = NoResponse
            /\ calls' = NoCalls
       ELSE LET u == strip(body.url)
            IN  /\ url' = u
                /\ IF u = <<>>
                   THEN /\ pc' = "done"
                        /\ fault' = "none"
                        /\ response' = no_url_response
                        /\ calls' = NoCalls
                   ELSE IF ~urlparse(u).ok
                   THEN LET e == urlparse(u).exc
                            h == except_Exception(e)
                        IN  /\ pc' = h.pc
                            /\ fault' = e.type
                            /\ response' = h.response
                            /\ calls' = [extract |-> 1, probe |-> "none"]
                   ELSE /\ pc' = "probing"
                        /\ fault' = "none"
                        /\ response' = NoResponse
                        /\ calls' = [extract |-> 1, probe |-> "sent"]

\* a handler whose score drifts once an earlier result has been kept
finish_scan_drifting(redirect_count, outcome) ==
    /\ pc = "probing"
    /\ pc' = "done"
    /\ feat' = extract_features(url, redirect_count)
    /\ response' =
           LET b == success_body(feat')
               drift == IF memo.trust >= 0 /\ b.trust > 0 THEN 1 ELSE 0
           IN  [code |-> 200, body |-> [b EXCEPT !.trust = @ - drift]]
    /\ calls' = [calls EXCEPT !.probe = outcome]
    /\ UNCHANGED <<url, fault, memo, vec, scaler>>

\* the rest of the request once the probe has ended and yielded
\* redirect_count: the flags, the feature map, the score, the response
finish_scan(redirect_count, outcome) ==
    /\ pc = "probing"
    /\ pc' = "done"
    /\ feat' = extract_features(url, redirect_count)
    /\ response' = [code |-> 200, body |-> success_body(feat')]
    /\ calls' = [calls EXCEPT !.probe = outcome]
    /\ UNCHANGED <<url, fault, memo, vec, scaler>>

\* requests.get returned: redirect_count = len(response.history)
ProbeReturns(n) ==
    /\ CanProbe(url)
    /\ finish_scan(n, "returned")

\* requests.get raised or timed out: the bare except sets redirect_count = 0
ProbeRaises == finish_scan(0, "raised")

\* a client keeps one successful response to compare later ones with
Observe ==
    /\ pc = "done"
    /\ response.code = 200
    /\ memo = NoMemo
    /\ memo' = [url |-> url, redirect_count |-> feat.redirect_count,
                probe |-> calls.probe,
                prediction |-> response.body.prediction, trust |-> response.body.trust]
    /\ UNCHANGED <<pc, url, feat, response, fault, calls, vec, scaler>>

Init ==
    /\ pc = "idle"
    /\ url = <<>>
    /\ feat = NoFeat
    /\ response = NoResponse
    /\ fault = "none"
    /\ calls = NoCalls
    /\ memo = NoMemo
    /\ vec = NoVec
    /\ scaler = NoScaler

Next ==
    \/ \E body \in RequestBodies : scan_url(body)
    \/ \E n \in 0..MaxRedirects : ProbeReturns(n)
    \/ ProbeRaises

Spec == Init /\ [][Next]_vars

\* the same server, watched by a client that compares responses
NextObserved ==
    \/ \E body \in RequestBodies : scan_url(body)
    \/ \E n \in 0..MaxRedirects : ProbeReturns(n)
    \/ ProbeRaises
    \/ Observe

SpecObserved == Init /\ [][NextObserved]_vars

-----------------------------------------------------------------------------
(* compute_safety_score and the verdict over the feature maps themselves:   *)
(* from the feature map of the empty url, one input is raised at a time and *)
(* the map is scored again.  The fields compute_safety_score does not read  *)
(* stay those of the empty url.                                             *)

rescore(f) ==
    /\ feat' = f
    /\ response' = [code |-> 200, body |-> success_body(f)]
    /\ UNCHANGED <<pc, url, fault, calls, memo, vec, scaler>>

RaiseUrlLength ==
    /\ feat.url_length < MaxUrlLength
    /\ rescore([feat EXCEPT
           !.url_length = @ + 1,
           !.special_char_ratio =
               special_char_ratio_of(feat.special_chars_count, feat.url_length + 1)])

RaiseSpecialChars ==
    /\ feat.special_chars_count < MaxSpecialChars
    /\ feat.special_chars_count < feat.url_length
    /\ rescore([feat EXCEPT
           !.special_chars_count = @ + 1,
           !.special_char_ratio =
               special_char_ratio_of(feat.special_chars_count + 1, feat.url_length)])

RaiseTriggerCount ==
    /\ feat.trigger_count < MaxTriggerCount
    /\ rescore([feat EXCEPT !.trigger_count = @ + 1])

RaiseRedirectCount ==
    /\ feat.redirect_count < MaxRedirects
    /\ rescore([feat EXCEPT !.redirect_count = @ + 1])

SetTokenMismatch ==
    /\ feat.token_mismatch = 0
    /\ rescore([feat EXCEPT !.token_mismatch = 1])

InitScore ==
    /\ pc = "done"
    /\ url = <<>>
    /\ feat = extract_features(<<>>, 0)
    /\ response = [code |-> 200, body |-> success_body(feat)]
    /\ fault = "none"
    /\ calls = [extract |-> 1, probe |-> "raised"]
    /\ memo = NoMemo
    /\ vec = NoVec
    /\ scaler = NoScaler

NextScore ==
    \/ RaiseUrlLength
    \/ RaiseSpecialChars
    \/ RaiseTriggerCount
    \/ RaiseRedirectCount
    \/ SetTokenMismatch

SpecScore == InitScore /\ [][NextScore]_vars

-----------------------------------------------------------------------------
(* feature_extractor.py and train_models.py: the classifier feature vector *)

SUSPICIOUS_TLDS == { <<"x", "y", "z">>, <<"t", "o", "p">>, <<"c", "l", "u", "b">>,
                     <<"m", "o", "n", "s", "t", "e", "r">>, <<"w", "o", "r", "k">>,
                     <<"g", "q">>, <<"m", "l">>, <<"t", "k">> }

PHISHING_KEYWORDS == { <<"s", "e", "c", "u", "r", "e">>,
                       <<"a", "c", "c", "o", "u", "n", "t">>,
                       <<"v", "e", "r", "i", "f", "y">>,
                       <<"u", "p", "d", "a", "t", "e">>,
                       <<"l", "o", "g", "i", "n">>,
                       <<"s", "i", "g", "n", "i", "n">>,
                       <<"b", "a", "n", "k">>,
                       <<"p", "a", "y", "p", "a", "l">>,
                       <<"a", "u", "t", "h">>,
                       <<"c", "o", "n", "f", "i", "r", "m">> }

\* the keyword list written out in train_models.extract_features
TRAIN_KEYWORDS == { <<"l", "o", "g", "i", "n">>, <<"s", "e", "c", "u", "r", "e">>,
                    <<"v", "e", "r", "i", "f", "y">>, <<"u", "p", "d", "a", "t", "e">>,
                    <<"b", "a", "n", "k">>, <<"c", "o", "n", "f", "i", "r", "m">> }

\* \w of the regular expression: a letter, a digit or the underscore
isword(c) == isalpha(c) \/ isdigit(c) \/ c = "_"

digits_count_of(u) == Cardinality({i \in 1..Len(u) : isdigit(u[i])})
letters_count_of(u) == Cardinality({i \in 1..Len(u) : isalpha(u[i])})
special_char_count_of(u) == Cardinality({i \in 1..Len(u) : ~isword(u[i])})

bool_int(b) == IF b THEN 1 ELSE 0

\* the fourteen counts both extractors compute, given the hostname and
\* whether a suspicious word was found
common_features(u, hostname, suspicious_words) ==
    << Len(u),                                  \* url_length
       Len(hostname),                           \* hostname_length
       count(u, "."),                           \* count_dots
       count(u, "-"),                           \* count_hyphen
       count(u, "@"),                           \* count_at
       count(u, "?"),                           \* count_question
       count(u, "%"),                           \* count_percent
       count(u, "/"),                           \* count_slash
       count(u, "="),                           \* count_equal
       bool_int(startswith(u, <<"h", "t", "t", "p", "s">>)),   \* has_https
       digits_count_of(u),                      \* digits_count
       letters_count_of(u),                     \* letters_count
       special_char_count_of(u),                \* special_char_count
       suspicious_words >>

\* hostname.split('.')[-1] if '.' in hostname else ''
tld_of(hostname) ==
    IF "." \in Range(hostname) THEN Tail0(hostname, RFindAny(hostname, {"."})) ELSE <<>>

\* feature_extractor.extract_features(url), for a url that urlparse accepts:
\* the features in feature_order
fe_extract_features(u) ==
    LET hostname == lower(urlparse(u).netloc)
    IN  Append(common_features(u, hostname,
                   bool_int(\E w \in PHISHING_KEYWORDS : Contains(lower(u), w))),
               bool_int(tld_of(hostname) \in SUSPICIOUS_TLDS))   \* suspicious_tld

\* train_models.extract_features(url), for a url that urlparse accepts:
\* list(features.values())
tm_extract_features(u) ==
    common_features(u, urlparse(u).netloc,
        bool_int(\E w \in TRAIN_KEYWORDS : Contains(u, w)))

\* the serving side extracts the vector of a url
ExtractVector(u) ==
    /\ url' = u
    /\ IF urlparse(u).ok
       THEN vec' = fe_extract_features(u) /\ fault' = "none"
       ELSE vec' = NoVec /\ fault' = urlparse(u).exc.type
    /\ UNCHANGED <<pc, feat, response, calls, memo, scaler>>

\* the rows train_test_split leaves for fitting: test_size = 0.20, rounded up
n_train(n) == n - ((n + 4) \div 5)

\* train_models: X is built from the dataset's urls, split, and the scaler
\* fitted on X_train; an unparsable url or an empty training part ends the
\* script before scaler.pkl is written
TrainModels(dataset) ==
    /\ \A u \in dataset : urlparse(u).ok
    /\ n_train(Cardinality(dataset)) > 0
    /\ LET X == {tm_extract_features(u) : u \in dataset}
           n_columns == CHOOSE n \in {Len(row) : row \in X} : TRUE
       IN  scaler' = [n_features_in |-> n_columns,
                      n_samples_seen |-> n_train(Cardinality(dataset))]
    /\ UNCHANGED <<pc, url, feat, response, fault, calls, memo, vec>>

\* the labelled urls a dataset.csv may hold
Datasets ==
    {d \in SUBSET SampleUrls : Cardinality(d) >= 1 /\ Cardinality(d) <= MaxDatasetRows}

NextClassifier ==
    \/ \E u \in ShortUrls \cup SampleUrls : ExtractVector(u)
    \/ \E d \in Datasets : TrainModels(d)

SpecClassifier == Init /\ [][NextClassifier]_vars

-----------------------------------------------------------------------------
(* Properties *)

Scored == response.code = 200

InUnit(a) == a.den > 0 /\ 0 <= a.num /\ a.num <= a.den

\* C1: for every feature map (url_length >= 0, special_chars_count within the
\* length, trigger_count >= 0, redirect_count >= 0, token_mismatch 0 or 1) the
\* trust reported in the response is an integer in 0..100, and so is the exact
\* weighted sum it is rounded from.
C1_TrustInRange ==
    Scored =>
        /\ response.body.trust \in 0..100
        /\ LET w == weighted100(feat)
           IN  w.den > 0 /\ 0 <= w.num /\ w.num <= 100 * w.den

\* every sub-score at its floor: the trust is 0
C1_Witness ==
    /\ Scored
    /\ response.body.trust = 0
    /\ feat.token_mismatch = 1
    /\ feat.trigger_count > 5
    /\ feat.redirect_count > 4
    /\ feat.url_length > 220

\* C2: in every success response the verdict is "Safe URL" exactly when the
\* trust is strictly greater than SAFE_THRESHOLD, and "Phishing URL" otherwise;
\* a trust equal to the threshold is Phishing.
C2_VerdictByThreshold ==
    Scored =>
        /\ response.body.prediction \in {"Safe URL", "Phishing URL"}
        /\ (response.body.prediction = "Safe URL") <=> (response.body.trust > SAFE_THRESHOLD)
        /\ response.body.threshold = SAFE_THRESHOLD

\* a scan whose trust equals the threshold, answered Phishing
C2_Witness ==
    /\ pc = "done"
    /\ Scored
    /\ response.body.trust = SAFE_THRESHOLD
    /\ response.body.prediction = "Phishing URL"

\* the url has neither a scheme nor a network location
LacksSchemeAndNetloc(u) ==
    LET p == urlparse(u) IN p.ok /\ p.scheme = <<>> /\ p.netloc = <<>>

\* C3: a request whose url has neither a scheme nor a network location (the
\* empty string included) is answered with the verdict "Invalid URL" and trust
\* 0, and neither extract_features nor its probe runs for it.
C3_InvalidUrlShortCircuit ==
    (pc \in {"probing", "done"} /\ LacksSchemeAndNetloc(url)) =>
        /\ calls = NoCalls
        /\ pc = "done" =>
              /\ "prediction" \in DOMAIN response.body
              /\ response.body.prediction = "Invalid URL"
              /\ response.body.trust = 0

\* C4: each of the five sub-scores lies in [0,1], and a step that raises
\* trigger_count, redirect_count, special_char_ratio or url_length does not
\* raise the sub-score of the input it raises.
C4_SubScoresBoundedMonotone ==
    /\ [](Scored => \A k \in DOMAIN sub_scores(feat) : InUnit(sub_scores(feat)[k]))
    /\ [][(Scored /\ Scored') =>
            /\ feat'.trigger_count > feat.trigger_count =>
                  RatLeq(sub_scores(feat').trigger, sub_scores(feat).trigger)
            /\ feat'.redirect_count > feat.redirect_count =>
                  RatLeq(sub_scores(feat').redirect, sub_scores(feat).redirect)
            /\ feat'.special_char_ratio > feat.special_char_ratio =>
                  RatLeq(sub_scores(feat').special, sub_scores(feat).special)
            /\ feat'.url_length > feat.url_length =>
                  RatLeq(sub_scores(feat').length, sub_scores(feat).length)]_vars

\* every badness input raised past the point where its sub-score reaches 0
C4_Witness ==
    /\ Scored
    /\ feat.trigger_count > 5 /\ sub_scores(feat).trigger.num = 0
    /\ feat.redirect_count > 4 /\ sub_scores(feat).redirect.num = 0
    /\ feat.url_length > 220 /\ sub_scores(feat).length.num = 0
    /\ feat.special_char_ratio > 1500 /\ sub_scores(feat).special.num = 0

\* C5: the vector feature_extractor.extract_features returns has the length it
\* has for the empty string, and that length is the number of features the
\* scaler of train_models was fitted on.
C5_VectorLengthMatchesFit ==
    vec # NoVec =>
        /\ Len(vec) = Len(fe_extract_features(<<>>))
        /\ scaler.n_features_in > 0 => Len(vec) = scaler.n_features_in

\* C6: a probe that raised leaves redirect_count at 0, and every request that
\* entered extract_features ends with a success response carrying a verdict
\* and a trust value.
C6_ExtractionAlwaysScores ==
    /\ (pc = "done" /\ calls.probe = "raised") => feat.redirect_count = 0
    /\ (pc \in {"done", "escaped"} /\ calls.extract = 1) =>
          /\ Scored
          /\ response.body.status = "success"
          /\ response.body.prediction \in {"Safe URL", "Phishing URL"}
          /\ response.body.trust \in 0..100

\* the exceptions extract_features and compute_safety_score can raise
TryFaults == {"ValueError"}

\* C7: a fault raised inside the try block of scan_url ends the request with
\* a response of status "error" that has no prediction and no trust field; no
\* such fault leaves the handler.
C7_FaultsBecomeErrorResponses ==
    /\ fault \in TryFaults =>
          /\ pc = "done"
          /\ response.code = 500
          /\ response.body.status = "error"
          /\ DOMAIN response.body = {"status", "message"}
    /\ pc = "escaped" => fault \notin TryFaults

\* urlparse raised inside extract_features and the request was answered
C7_Witness ==
    /\ pc = "done"
    /\ fault = "ValueError"
    /\ calls.extract = 1
    /\ response.body.status = "error"

LongCleanUrlScanned ==
    /\ pc = "done"
    /\ Scored
    /\ feat.url_length = 300
    /\ feat.special_chars_count = 0
    /\ feat.trigger_count = 0
    /\ feat.token_mismatch = 0
    /\ feat.redirect_count = 0

\* C9 as stated: for such a url length_score is 0, the trust is below the
\* threshold of 70 and the verdict is Phishing.
C9_LongUrlIsPhishing ==
    LongCleanUrlScanned =>
        /\ response.body.feature_scores.length_score_pct = 0
        /\ response.body.trust < 70
        /\ response.body.prediction = "Phishing URL"

\* C9 amended: for such a url length_score is 0, the trust is 80, above the
\* threshold of 70, and the verdict is Safe.
C9_LongUrlScoresEighty ==
    LongCleanUrlScanned =>
        /\ sub_scores(feat).length.num = 0
        /\ response.body.feature_scores.length_score_pct = 0
        /\ response.body.trust = 80
        /\ response.body.prediction = "Safe URL"

C9_Witness == LongCleanUrlScanned /\ url = UrlLong

\* C10: whenever token_mismatch is 1 the trust is at most 70, whatever the
\* other features are, and the verdict is "Phishing URL".
C10_MismatchNeverSafe ==
    (Scored /\ feat.token_mismatch = 1) =>
        /\ response.body.trust <= 70
        /\ LET w == weighted100(feat) IN w.num <= 70 * w.den
        /\ response.body.prediction = "Phishing URL"

\* a mismatch with every other sub-score at 1: the trust is exactly 70
C10_Witness ==
    /\ Scored
    /\ feat.token_mismatch = 1
    /\ response.body.trust = 70

=============================================================================
